---- MODULE Spec2Model ----
(***************************************************************************)
(* NotificationService/app/main.py: the ConnectionManager registry         *)
(* (active_connections, subscriptions, _lock) and its three coroutines     *)
(* connect, disconnect and broadcast, the latter reached through           *)
(* post_notification.  Coroutines run on one asyncio event loop: the code  *)
(* between two awaits that suspend is one atomic step.                     *)
(***************************************************************************)
EXTENDS Naturals, Sequences, FiniteSets

\* ------------------------------------------------------------------ bounds
NStreams == 2          \* WebSocket objects the framework hands to the service
MaxCalls == 4          \* coroutine calls made in one behaviour of Spec
MatchStreams == 1      \* streams registered in an initial state of SpecMatch
AppCalls == 3          \* coroutine calls made in one behaviour of SpecApp

Streams == 1..NStreams
Calls == 1..MaxCalls

\* ------------------------------------------------------------------ values
\* Python's None; the empty string is "".
None == "None"

UserIds == {"u1", "u2"}
TopicNames == {"t1", "t2"}

\* Optional[str] over a set of non-empty strings
OptStr(S) == S \cup {None, ""}

\* `if x is not None:` in place of `if x:`
TruthyNotNone(x) == x # None

\* Truthiness of an Optional[str]: `if x:` is false for None and for "".
Truthy(x) == x # None /\ x # ""

\* A dict with string keys is a function; dict.get(k) gives None when absent.
EmptyDict == [k \in {} |-> None]
DictGet(d, k) == IF k \in DOMAIN d THEN d[k] ELSE None

\* Optional[Dict[str, Any]] (Notification.data): None, or a dict.
DataNone == [isNone |-> TRUE, dict |-> EmptyDict]
DataDict(d) == [isNone |-> FALSE, dict |-> d]
\* `data or {}`: None and the empty dict are both falsy.
DataOrEmpty(data) == IF data.isNone \/ DOMAIN data.dict = {} THEN EmptyDict ELSE data.dict

DataVals == {DataNone, DataDict(EmptyDict)}
              \cup {DataDict([topic |-> t]) : t \in TopicNames \cup {""}}

\* The subscription dict stored per websocket, {"userId": ..., "topic": ...}.
Filters(u, t) == [userId |-> u, topic |-> t]

\* The routing fields of a NotificationCreateRequest.
AllFilters == {Filters(u, t) : u \in OptStr(UserIds), t \in OptStr(TopicNames)}
AllPayloads == [userId : OptStr(UserIds), topic : OptStr(TopicNames), data : DataVals]

\* The inputs of the concurrent specification.
SomeFilters == {Filters(u, None) : u \in {None, "u1"}}
SomePayloads == [userId : {"u1", "u2"}, topic : {None}, data : {DataNone}]

NoPayload == [userId |-> None, topic |-> None, data |-> DataNone]

\* ------------------------------------------------------------------ helpers
Range(s) == {s[i] : i \in DOMAIN s}

RECURSIVE Perms(_)
\* every order in which list(a_set) may enumerate the set
Perms(S) ==
    IF S = {} THEN {<< >>}
    ELSE UNION {{<<x>> \o p : p \in Perms(S \ {x})} : x \in S}

RemoveFrom(seq, x) == SelectSeq(seq, LAMBDA y : y # x)

Min(S) == CHOOSE x \in S : \A y \in S : x <= y

\* ------------------------------------------------------------------ state
VARIABLES
    active_connections,   \* ConnectionManager.active_connections: Set[WebSocket]
    subscriptions,        \* ConnectionManager.subscriptions: websocket -> filters
    locked,               \* ConnectionManager._lock: asyncio.Lock._locked
    waiters,              \* asyncio.Lock._waiters, oldest first (calls suspended in acquire)
    woken,                \* waiters whose future release() has resolved
    application_state,    \* WebSocket.application_state of each stream
    nextCall,             \* number of coroutine calls made so far; a call's id is its rank
    kind,                 \* per call: "none", "connect", "disconnect", "publish",
                          \*   "endpoint" (websocket_endpoint)
    arg_ws,               \* per call: the websocket argument of connect/disconnect
    arg_filters,          \* per call: connect's user_id and topic arguments
    message,              \* per call: the dict post_notification hands to broadcast
    arg_payload,          \* per call: the routing fields of post_notification's payload
    goneAtCall,           \* per call: the streams whose endpoint had returned from its
                          \*   disconnect when post_notification was called
    registeredAtCall,     \* per call: whether connect's websocket was in
                          \*   active_connections when connect was called
    pc,                   \* per call: where the coroutine is suspended
    snapshot,             \* per call: list(self.active_connections) of broadcast
    idx,                  \* per call: position of broadcast's for loop in snapshot
    to_remove,            \* per call: broadcast's to_remove list
    regAtSnapshot,        \* per call: subscriptions as they were when snapshot was taken
    log                   \* every ws.send_text call made, in order: [call, ws]

vars == <<active_connections, subscriptions, locked, waiters, woken, application_state,
          nextCall, kind, arg_ws, arg_filters, message, arg_payload, goneAtCall,
          registeredAtCall, pc, snapshot, idx, to_remove, regAtSnapshot, log>>

registry == <<active_connections, subscriptions>>
lockVars == <<locked, waiters, woken>>
argVars == <<nextCall, kind, arg_ws, arg_filters, message, arg_payload, goneAtCall,
             registeredAtCall>>
loopVars == <<snapshot, idx, to_remove, regAtSnapshot, log>>

\* ------------------------------------------------------------------ post_notification
\* notification.dict() with the routing fields kept, plus "topic" when payload.topic
\* is truthy.
Message(payload) ==
    IF Truthy(payload.topic)
    THEN [userId |-> payload.userId, data |-> payload.data, topic |-> payload.topic]
    ELSE [userId |-> payload.userId, data |-> payload.data]

\* ------------------------------------------------------------------ broadcast's matching
\* filters = self.subscriptions.get(ws, {})
SubscriptionOf(subs, ws) == IF ws \in DOMAIN subs THEN subs[ws] ELSE EmptyDict

\* matches_user as the docstring of broadcast words it: "matches or is None"
MatchesUserOrNone(msg, user_filter) ==
    IF Truthy(user_filter)
    THEN DictGet(msg, "userId") = user_filter \/ DictGet(msg, "userId") = None
    ELSE TRUE

\* matches_user without the `if user_filter:` guard
MatchesUserUnguarded(msg, user_filter) == DictGet(msg, "userId") = user_filter

\* matches_user
MatchesUser(msg, user_filter) ==
    IF Truthy(user_filter) THEN DictGet(msg, "userId") = user_filter ELSE TRUE

\* msg_topic without the fallback to data["topic"]
MsgTopicTopLevelOnly(msg) == DictGet(msg, "topic")

\* msg_topic: top-level "topic", else (data or {}).get("topic")
MsgTopic(msg) ==
    LET top == DictGet(msg, "topic") IN
    IF ~Truthy(top) THEN DictGet(DataOrEmpty(msg.data), "topic") ELSE top

\* matches_topic
MatchesTopic(msg, topic_filter) ==
    IF Truthy(topic_filter) THEN MsgTopic(msg) = topic_filter ELSE TRUE

\* `if matches_user and matches_topic`
Matches(msg, filters) ==
    /\ MatchesUser(msg, DictGet(filters, "userId"))
    /\ MatchesTopic(msg, DictGet(filters, "topic"))

\* ------------------------------------------------------------------ registry updates
\* set.add
SetAdd(s, x) == s \cup {x}
\* set.symmetric_difference_update in place of discard: adds x when it is absent
SetToggle(s, x) == IF x \in s THEN s \ {x} ELSE s \cup {x}
\* no removal at all in place of discard
SetKeep(s, x) == s
\* set.discard: no error when x is absent
SetDiscard(s, x) == s \ {x}
\* d[k] = v
DictPut(d, k, v) == [w \in DOMAIN d \cup {k} |-> IF w = k THEN v ELSE d[w]]
\* the pop forgotten
DictPopForgotten(d, k) == d
\* d.pop(k, None): no error when k is absent
DictPop(d, k) == [w \in DOMAIN d \ {k} |-> d[w]]

\* a pruning loop that stops after the first element of to_remove
PruneFirstOnly(s, rm) == IF rm = << >> THEN s ELSE s \ {rm[1]}
\* a pruning loop over the whole snapshot: every stream of the registry is dropped
PruneEverything(s, rm) == {}
\* broadcast's pruning loop over to_remove
PruneSet(s, rm) == s \ Range(rm)
PruneDict(d, rm) == [w \in DOMAIN d \ Range(rm) |-> d[w]]

\* the for loop goes on with the next element after a send returned ...
ResumeAt(i) == i + 1
\* the try around the whole loop: a raise ends the loop
BreakOnRaise(i, n) == n + 1
\* ... and also after a send raised (the except clause is inside the loop body);
\* n is the length of the list
ResumeAfterRaise(i, n) == i + 1

\* ------------------------------------------------------------------ exceptions
\* what ws.send_text and websocket.receive_text raise on a closed or broken stream
StreamErrors == {"WebSocketDisconnect", "RuntimeError"}

\* no except clause at all: every exception leaves the try statement
ExceptNothing(exc) == FALSE
\* `except Exception`: every exception but those that derive from BaseException only,
\* as asyncio.CancelledError does
ExceptException(exc) == exc # "CancelledError"

\* ------------------------------------------------------------------ asyncio.Lock
\* acquire() that does not look at _locked
CanAcquireIgnoringLocked == waiters = << >>
\* acquire() that does not look at _waiters (barging past the calls already waiting)
CanAcquireBarging == ~locked

\* acquire() takes the lock without suspending only when it is free and nobody waits
\* (no waiter is ever cancelled here, so "all waiters cancelled" is "no waiters").
CanAcquire == ~locked /\ waiters = << >>

\* release() -> _wake_up_first(): resolve the future of the oldest waiter
WakeUpFirst(w, wk) == IF w = << >> THEN wk ELSE wk \cup {w[1]}

\* ------------------------------------------------------------------ initial state
NoCalls ==
    /\ nextCall = 0
    /\ kind = [c \in Calls |-> "none"]
    /\ arg_ws = [c \in Calls |-> 0]
    /\ arg_filters = [c \in Calls |-> Filters(None, None)]
    /\ message = [c \in Calls |-> Message(NoPayload)]
    /\ arg_payload = [c \in Calls |-> NoPayload]
    /\ goneAtCall = [c \in Calls |-> {}]
    /\ registeredAtCall = [c \in Calls |-> FALSE]
    /\ pc = [c \in Calls |-> "none"]
    /\ snapshot = [c \in Calls |-> << >>]
    /\ idx = [c \in Calls |-> 0]
    /\ to_remove = [c \in Calls |-> << >>]
    /\ regAtSnapshot = [c \in Calls |-> EmptyDict]
    /\ log = << >>
    /\ locked = FALSE
    /\ waiters = << >>
    /\ woken = {}

\* ConnectionManager.__init__: empty registry, free lock; no stream accepted yet
Init ==
    /\ active_connections = {}
    /\ subscriptions = EmptyDict
    /\ application_state = [w \in Streams |-> "connecting"]
    /\ NoCalls

\* ------------------------------------------------------------------ lock-guarded sections
\* A section is entered with the lock just taken by call c; w and wk are _waiters and
\* the resolved futures once c is no longer a waiter.  A section that does not suspend
\* runs to its release() within the step.

\* connect, lines 124-126
ConnectSection(c, ws, f, w, wk) ==
    /\ active_connections' = SetAdd(active_connections, ws)
    /\ subscriptions' = DictPut(subscriptions, ws, f)
    /\ locked' = FALSE
    /\ waiters' = w
    /\ woken' = WakeUpFirst(w, wk)
    \* connect returns: to its caller, or into websocket_endpoint's receive loop
    /\ pc' = [pc EXCEPT ![c] = IF kind[c] = "endpoint" THEN "receive" ELSE "done"]
    /\ UNCHANGED loopVars

\* disconnect, lines 129-131
DisconnectSection(c, ws, w, wk) ==
    /\ active_connections' = SetDiscard(active_connections, ws)
    /\ subscriptions' = DictPop(subscriptions, ws)
    /\ locked' = FALSE
    /\ waiters' = w
    /\ woken' = WakeUpFirst(w, wk)
    /\ pc' = [pc EXCEPT ![c] = "done"]
    /\ UNCHANGED loopVars

\* first position >= from of snap whose stream matches, Len(snap)+1 when none does
FirstMatch(msg, subs, snap, from) ==
    LET S == {j \in from..Len(snap) : Matches(msg, SubscriptionOf(subs, snap[j]))}
    IN IF S = {} THEN Len(snap) + 1 ELSE Min(S)

\* broadcast's for loop from position `from` with to_remove = rm: runs up to the next
\* `await ws.send_text(data_text)` and suspends there, or, the list exhausted, prunes
\* to_remove, releases the lock and returns to post_notification, which returns.
BroadcastLoop(c, msg, snap, from, rm, w, wk) ==
    LET j == FirstMatch(msg, subscriptions, snap, from) IN
    /\ snapshot' = [snapshot EXCEPT ![c] = snap]
    /\ idx' = [idx EXCEPT ![c] = j]
    /\ to_remove' = [to_remove EXCEPT ![c] = rm]
    /\ waiters' = w
    /\ IF j <= Len(snap)
       THEN /\ log' = Append(log, [call |-> c, ws |-> snap[j]])
            /\ pc' = [pc EXCEPT ![c] = "send"]
            /\ locked' = TRUE
            /\ woken' = wk
            /\ UNCHANGED registry
       ELSE /\ active_connections' = PruneSet(active_connections, rm)
            /\ subscriptions' = PruneDict(subscriptions, rm)
            /\ locked' = FALSE
            /\ woken' = WakeUpFirst(w, wk)
            /\ pc' = [pc EXCEPT ![c] = "done"]
            /\ UNCHANGED log

\* the lists list(self.active_connections) can be: the streams accepted by now, those
\* still waiting to be registered included
SnapshotOfAccepted(active) ==
    Perms(active \cup {ws \in Streams : application_state[ws] = "connected"})

\* the lists list(self.active_connections) can be: the members of the set, in any order
SnapshotOf(active) == Perms(active)

\* broadcast, lines 141-143: to_remove = [], snapshot of active_connections
BroadcastSection(c, msg, w, wk) ==
    \E snap \in SnapshotOf(active_connections) :
        /\ regAtSnapshot' = [regAtSnapshot EXCEPT ![c] = subscriptions]
        /\ BroadcastLoop(c, msg, snap, 1, << >>, w, wk)

\* acquire() when the lock cannot be taken: append a future to _waiters and suspend
Enqueue(c) ==
    /\ waiters' = Append(waiters, c)
    /\ pc' = [pc EXCEPT ![c] = "wait"]
    /\ UNCHANGED <<locked, woken, registry, loopVars>>

\* ------------------------------------------------------------------ actions
\* manager.connect(websocket, user_id, topic) is called: suspends in websocket.accept()
Connect(ws, f) ==
    LET c == nextCall + 1 IN
    /\ nextCall' = c
    /\ kind' = [kind EXCEPT ![c] = "connect"]
    /\ arg_ws' = [arg_ws EXCEPT ![c] = ws]
    /\ arg_filters' = [arg_filters EXCEPT ![c] = f]
    /\ registeredAtCall' = [registeredAtCall EXCEPT ![c] = ws \in active_connections]
    /\ pc' = [pc EXCEPT ![c] = "accept"]
    /\ UNCHANGED <<message, arg_payload, goneAtCall>>
    /\ UNCHANGED <<registry, lockVars, loopVars, application_state>>

\* websocket.accept() returns: the handshake is done, connect goes on to the lock
AcceptOk(c) ==
    /\ pc[c] = "accept"
    /\ application_state[arg_ws[c]] = "connecting"
    /\ application_state' = [application_state EXCEPT ![arg_ws[c]] = "connected"]
    /\ IF CanAcquire
       THEN ConnectSection(c, arg_ws[c], arg_filters[c], waiters, woken)
       ELSE Enqueue(c)
    /\ UNCHANGED argVars

\* websocket.accept() raises (the peer is gone, or the stream was accepted before):
\* connect propagates the exception and never reaches the lock
AcceptRaise(c) ==
    /\ pc[c] = "accept"
    /\ kind[c] = "connect"
    /\ application_state' =
         [application_state EXCEPT ![arg_ws[c]] =
             IF @ = "connecting" THEN "disconnected" ELSE @]
    /\ pc' = [pc EXCEPT ![c] = "raised"]
    /\ UNCHANGED <<argVars, registry, lockVars, loopVars>>

\* manager.disconnect(websocket) is called
Disconnect(ws) ==
    LET c == nextCall + 1 IN
    /\ nextCall' = c
    /\ kind' = [kind EXCEPT ![c] = "disconnect"]
    /\ arg_ws' = [arg_ws EXCEPT ![c] = ws]
    /\ IF CanAcquire
       THEN DisconnectSection(c, ws, waiters, woken)
       ELSE Enqueue(c)
    /\ UNCHANGED <<arg_filters, message, arg_payload, goneAtCall, registeredAtCall,
                   application_state>>

\* the streams whose websocket_endpoint has returned from its call of disconnect
Gone == {arg_ws[d] : d \in {x \in Calls : kind[x] = "endpoint" /\ pc[x] = "done"}}

\* post_notification(payload) is called: builds the message and calls broadcast
Publish(payload) ==
    LET c == nextCall + 1 IN
    /\ nextCall' = c
    /\ kind' = [kind EXCEPT ![c] = "publish"]
    /\ message' = [message EXCEPT ![c] = Message(payload)]
    /\ arg_payload' = [arg_payload EXCEPT ![c] = payload]
    /\ goneAtCall' = [goneAtCall EXCEPT ![c] = Gone]
    /\ UNCHANGED registeredAtCall
    /\ IF CanAcquire
       THEN BroadcastSection(c, Message(payload), waiters, woken)
       ELSE Enqueue(c)
    /\ UNCHANGED <<arg_ws, arg_filters, application_state>>

\* a call suspended in acquire() whose future was resolved runs again: it leaves
\* _waiters, sets _locked and enters its section
WakeRun(c) ==
    /\ pc[c] = "wait"
    /\ c \in woken
    /\ LET w == RemoveFrom(waiters, c)
           wk == woken \ {c}
       IN CASE kind[c] \in {"connect", "endpoint"} -> ConnectSection(c, arg_ws[c], arg_filters[c], w, wk)
            [] kind[c] = "disconnect" -> DisconnectSection(c, arg_ws[c], w, wk)
            [] OTHER -> BroadcastSection(c, message[c], w, wk)
    /\ UNCHANGED <<argVars, application_state>>

\* ws.send_text returns: the loop goes on
SendOk(c) ==
    /\ pc[c] = "send"
    /\ BroadcastLoop(c, message[c], snapshot[c], ResumeAt(idx[c]), to_remove[c],
                     waiters, woken)
    /\ UNCHANGED <<regAtSnapshot, argVars, application_state>>

\* an exception leaves broadcast: `async with` releases the lock on the way out,
\* nothing is pruned, and post_notification propagates it
BroadcastAbort(c, exc) ==
    /\ locked' = FALSE
    /\ woken' = WakeUpFirst(waiters, woken)
    /\ pc' = [pc EXCEPT ![c] = IF exc = "CancelledError" THEN "cancelled" ELSE "raised"]
    /\ UNCHANGED <<waiters, registry, loopVars>>

\* exc is raised at `await ws.send_text(data_text)`: `except Exception` marks the
\* stream for removal and the loop goes on; any other exception leaves broadcast
SendRaises(c, exc) ==
    IF ExceptException(exc)
    THEN /\ BroadcastLoop(c, message[c], snapshot[c],
                          ResumeAfterRaise(idx[c], Len(snapshot[c])),
                          Append(to_remove[c], snapshot[c][idx[c]]), waiters, woken)
         /\ UNCHANGED regAtSnapshot
    ELSE BroadcastAbort(c, exc)

\* ws.send_text raises: the stream is broken or closed
SendRaise(c) ==
    /\ pc[c] = "send"
    /\ \E exc \in StreamErrors : SendRaises(c, exc)
    /\ UNCHANGED <<argVars, application_state>>

\* ------------------------------------------------------------------ websocket_endpoint
\* The framework calls websocket_endpoint(websocket) once, with a new WebSocket, for
\* every connection: the call reads the query parameters and suspends in
\* manager.connect's websocket.accept().
Endpoint(ws, f) ==
    LET c == nextCall + 1 IN
    /\ nextCall' = c
    /\ kind' = [kind EXCEPT ![c] = "endpoint"]
    /\ arg_ws' = [arg_ws EXCEPT ![c] = ws]
    /\ arg_filters' = [arg_filters EXCEPT ![c] = f]
    /\ pc' = [pc EXCEPT ![c] = "accept"]
    /\ UNCHANGED <<message, arg_payload, goneAtCall, registeredAtCall>>
    /\ UNCHANGED <<registry, lockVars, loopVars, application_state>>

\* `await manager.disconnect(websocket)` in a handler, the lock being lk and the
\* waiters w, wk: the section at once, or the call suspends in acquire()
EndpointDisconnect(c, lk, w, wk) ==
    IF ~lk /\ w = << >>
    THEN DisconnectSection(c, arg_ws[c], w, wk)
    ELSE /\ waiters' = Append(w, c)
         /\ woken' = wk
         /\ locked' = lk
         /\ pc' = [pc EXCEPT ![c] = "dwait"]
         /\ UNCHANGED <<registry, loopVars>>

\* exc leaves the try body of websocket_endpoint (lines 268-278): WebSocketDisconnect
\* and whatever `except Exception` catches end in manager.disconnect; any other
\* exception ends the call with no handler run
EndpointHandle(c, exc, lk, w, wk) ==
    IF exc = "WebSocketDisconnect" \/ ExceptException(exc)
    THEN EndpointDisconnect(c, lk, w, wk)
    ELSE /\ pc' = [pc EXCEPT ![c] = IF exc = "CancelledError" THEN "cancelled" ELSE "raised"]
         /\ waiters' = w
         /\ woken' = wk
         /\ locked' = lk
         /\ UNCHANGED <<registry, loopVars>>

\* connect's websocket.accept() raises inside websocket_endpoint's try
EndpointAcceptRaise(c) ==
    /\ pc[c] = "accept"
    /\ kind[c] = "endpoint"
    /\ application_state' =
         [application_state EXCEPT ![arg_ws[c]] =
             IF @ = "connecting" THEN "disconnected" ELSE @]
    /\ \E exc \in StreamErrors : EndpointHandle(c, exc, locked, waiters, woken)
    /\ UNCHANGED argVars

\* websocket.receive_text() raises: the client closed the stream, or the transport
\* failed.  (A text frame received goes round the `while True` loop and changes nothing.)
ReceiveRaise(c) ==
    /\ pc[c] = "receive"
    /\ application_state' = [application_state EXCEPT ![arg_ws[c]] = "disconnected"]
    /\ \E exc \in StreamErrors : EndpointHandle(c, exc, locked, waiters, woken)
    /\ UNCHANGED argVars

\* the endpoint's disconnect, suspended in acquire(), runs again with the lock
WakeRunDisconnect(c) ==
    /\ pc[c] = "dwait"
    /\ c \in woken
    /\ DisconnectSection(c, arg_ws[c], RemoveFrom(waiters, c), woken \ {c})
    /\ UNCHANGED <<argVars, application_state>>

\* ------------------------------------------------------------------ cancellation
\* The server cancels the task of a call: CancelledError is raised at the await the
\* call is suspended in.

\* ... in websocket.accept() or websocket.receive_text() of websocket_endpoint
CancelEndpoint(c) ==
    /\ kind[c] = "endpoint"
    /\ pc[c] \in {"accept", "receive"}
    /\ EndpointHandle(c, "CancelledError", locked, waiters, woken)
    /\ UNCHANGED <<argVars, application_state>>

\* ... in acquire(): the call leaves _waiters and, the lock being free, passes its
\* wake-up on to the next waiter (asyncio.Lock.acquire's except CancelledError).
\* Raised in connect's acquire the exception goes through websocket_endpoint's
\* handlers; raised in broadcast's, or in the disconnect a handler called, it ends
\* the call.
CancelWaiter(c) ==
    /\ pc[c] \in {"wait", "dwait"}
    /\ kind[c] \in {"endpoint", "publish"}
    /\ LET w == RemoveFrom(waiters, c)
           wk == IF locked THEN woken \ {c} ELSE WakeUpFirst(w, woken \ {c})
       IN IF kind[c] = "endpoint" /\ pc[c] = "wait"
          THEN EndpointHandle(c, "CancelledError", locked, w, wk)
          ELSE /\ pc' = [pc EXCEPT ![c] = "cancelled"]
               /\ waiters' = w
               /\ woken' = wk
               /\ UNCHANGED <<locked, registry, loopVars>>
    /\ UNCHANGED <<argVars, application_state>>

\* ... in ws.send_text of broadcast
CancelSend(c) ==
    /\ pc[c] = "send"
    /\ SendRaises(c, "CancelledError")
    /\ UNCHANGED <<argVars, application_state>>

\* ws.send_text never returns: the peer stopped reading and nothing bounds the wait
SendHang(c) ==
    /\ pc[c] = "send"
    /\ pc' = [pc EXCEPT ![c] = "hung"]
    /\ UNCHANGED <<argVars, application_state, registry, lockVars, loopVars>>

\* ------------------------------------------------------------------ specifications
\* Concurrent calls of connect, disconnect and post_notification.
\* WebSocket objects are opaque and hashed by identity, so which of the unused ones a
\* call names first makes no difference: a call names a stream already named by an
\* earlier call, or the lowest one not named yet.
Named == {arg_ws[c] : c \in 1..nextCall} \ {0}
Nameable == {ws \in Streams : ws <= Cardinality(Named) + 1}

StartConnect == nextCall < MaxCalls /\ \E ws \in Nameable, f \in SomeFilters : Connect(ws, f)
StartDisconnect == nextCall < MaxCalls /\ \E ws \in Nameable : Disconnect(ws)
StartPublish == nextCall < MaxCalls /\ \E p \in SomePayloads : Publish(p)
Accepted == \E c \in Calls : AcceptOk(c)
AcceptFailed == \E c \in Calls : AcceptRaise(c)
Woken == \E c \in Calls : WakeRun(c)
Sent == \E c \in Calls : SendOk(c)
SendFailed == \E c \in Calls : SendRaise(c)

Next ==
    \/ StartConnect
    \/ StartDisconnect
    \/ StartPublish
    \/ Accepted
    \/ AcceptFailed
    \/ Woken
    \/ Sent
    \/ SendFailed

Spec == Init /\ [][Next]_vars

\* One post_notification call against a registry of at most MatchStreams streams with
\* any filters, as a run of connect calls leaves it: every payload meets every filter.
InitMatch ==
    /\ active_connections \in {S \in SUBSET Streams : Cardinality(S) <= MatchStreams}
    /\ subscriptions \in [active_connections -> AllFilters]
    /\ application_state =
         [w \in Streams |-> IF w \in active_connections THEN "connected" ELSE "connecting"]
    /\ NoCalls

PublishOne == nextCall = 0 /\ \E p \in AllPayloads : Publish(p)

NextMatch ==
    \/ PublishOne
    \/ Sent
    \/ SendFailed

SpecMatch == InitMatch /\ [][NextMatch]_vars

\* The service as it runs: the framework calls websocket_endpoint for each connection
\* and post_notification for each publish request; streams close, tasks are cancelled,
\* peers stall.
StartEndpoint ==
    nextCall < AppCalls /\ \E ws \in Nameable \ Named, f \in SomeFilters : Endpoint(ws, f)
StartPublishApp == nextCall < AppCalls /\ \E p \in SomePayloads : Publish(p)
EndpointAcceptFailed == \E c \in Calls : EndpointAcceptRaise(c)
ReceiveFailed == \E c \in Calls : ReceiveRaise(c)
WokenDisconnect == \E c \in Calls : WakeRunDisconnect(c)
EndpointCancelled == \E c \in Calls : CancelEndpoint(c)
WaiterCancelled == \E c \in Calls : CancelWaiter(c)
SendCancelled == \E c \in Calls : CancelSend(c)
SendHung == \E c \in Calls : SendHang(c)

NextApp ==
    \/ StartEndpoint
    \/ StartPublishApp
    \/ Accepted
    \/ EndpointAcceptFailed
    \/ ReceiveFailed
    \/ Woken
    \/ WokenDisconnect
    \/ Sent
    \/ SendFailed
    \/ EndpointCancelled
    \/ WaiterCancelled
    \/ SendCancelled
    \/ SendHung

SpecApp == Init /\ [][NextApp]_vars

\* The event loop runs every call that can run, an accept that can complete does, and
\* a send that is not stalled returns or raises.  Nothing obliges a client to connect,
\* publish or close, a task to be cancelled, or a peer to stall.
FairApp ==
    /\ WF_vars(Accepted)
    /\ WF_vars(Woken)
    /\ WF_vars(WokenDisconnect)
    /\ WF_vars(Sent \/ SendFailed)

SpecAppFair == SpecApp /\ FairApp

\* ------------------------------------------------------------------ properties
\* broadcast call c made a send_text call on ws
SentTo(c, ws) == \E i \in DOMAIN log : log[i].call = c /\ log[i].ws = ws
\* number of send_text calls broadcast call c made on ws
Attempts(c, ws) == Cardinality({i \in DOMAIN log : log[i].call = c /\ log[i].ws = ws})
\* post_notification call c has returned
Completed(c) == kind[c] = "publish" /\ pc[c] = "done"
\* call c takes the lock and runs section code in this step
EntersSection(c) == pc[c] \in {"none", "accept", "wait"} /\ pc'[c] \in {"send", "done"}
\* call c goes on with its section after a send in this step
ResumesSection(c) == pc[c] = "send" /\ idx'[c] # idx[c]
\* the topic of an envelope as the specification resolves it: the top-level topic
\* if present, otherwise data.topic if present, otherwise absent
ResolvedTopic(msg) ==
    IF "topic" \in DOMAIN msg THEN msg.topic
    ELSE IF ~msg.data.isNone /\ "topic" \in DOMAIN msg.data.dict THEN msg.data.dict.topic
    ELSE None

\* C1: whenever the registry lock is free, active_connections is exactly the key set
\* of subscriptions.
C1_RegistryInSync == ~locked => active_connections = DOMAIN subscriptions

\* a connect, a disconnect and a broadcast that pruned a failed stream have all
\* completed, and a stream is still registered
C1_Witness ==
    /\ ~locked
    /\ active_connections # {}
    /\ \E c \in Calls : kind[c] = "connect" /\ pc[c] = "done"
    /\ \E c \in Calls : kind[c] = "disconnect" /\ pc[c] = "done"
    /\ \E c \in Calls : Completed(c) /\ to_remove[c] # << >>

\* C2: a call enters or goes on with its lock-guarded section only while no other call
\* is suspended inside one (broadcast suspended at a send).
C2_MutualExclusion ==
    [][\A c, o \in Calls :
          (c # o /\ (EntersSection(c) \/ ResumesSection(c))) => pc[o] # "send"]_vars

\* a broadcast is suspended at a send while a connect and a disconnect wait for the lock
C2_Witness ==
    \E b, c, d \in Calls :
        /\ pc[b] = "send"
        /\ kind[c] = "connect" /\ pc[c] = "wait"
        /\ kind[d] = "disconnect" /\ pc[d] = "wait"

C4_UserMatchesOrNone ==
    \A c \in Calls : \A ws \in DOMAIN regAtSnapshot[c] :
        LET f == regAtSnapshot[c][ws] IN
        (/\ Completed(c)
         /\ Truthy(f.userId) /\ f.topic = None
         /\ message[c].userId \in {f.userId, None})
            => SentTo(c, ws)

C6_UnfilteredGetsAll ==
    \A c \in Calls : \A ws \in DOMAIN regAtSnapshot[c] :
        (Completed(c) /\ regAtSnapshot[c][ws] = Filters(None, None)) => SentTo(c, ws)

\* a completed broadcast sent an envelope carrying a userId and a topic to an
\* unfiltered stream
C6_Witness ==
    \E c \in Calls : \E ws \in DOMAIN regAtSnapshot[c] :
        /\ Completed(c)
        /\ regAtSnapshot[c][ws] = Filters(None, None)
        /\ Truthy(message[c].userId) /\ Truthy(ResolvedTopic(message[c]))
        /\ SentTo(c, ws)

\* C7: a disconnect that runs always completes without error and leaves its stream
\* out of the registry; when the stream was not registered it changes nothing.
C7_DisconnectIdempotent ==
    [][\A c \in Calls :
          (kind'[c] = "disconnect" /\ pc[c] \in {"none", "wait"} /\ pc'[c] # "wait")
              => /\ pc'[c] = "done"
                 /\ arg_ws'[c] \notin active_connections'
                 /\ arg_ws'[c] \notin DOMAIN subscriptions'
                 /\ (arg_ws'[c] \notin active_connections \cup DOMAIN subscriptions
                        => UNCHANGED registry)]_vars

\* a stream was connected and then disconnected twice; another disconnect named a
\* stream that was never connected
C7_Witness ==
    \E c0, c1, c2, c3 \in Calls :
        /\ c0 < c1 /\ c1 < c2
        /\ kind[c0] = "connect" /\ pc[c0] = "done"
        /\ kind[c1] = "disconnect" /\ pc[c1] = "done" /\ arg_ws[c1] = arg_ws[c0]
        /\ kind[c2] = "disconnect" /\ pc[c2] = "done" /\ arg_ws[c2] = arg_ws[c0]
        /\ kind[c3] = "disconnect" /\ pc[c3] = "done"
        /\ application_state[arg_ws[c3]] = "connecting"

\* C8: in the step that completes a broadcast, every stream whose send failed is out
\* of the registry, every other stream of the registry at the snapshot is still there
\* with its subscription, and the registry shrank by the number of failed sends.
C8_PruneExactlyFailed ==
    [][\A c \in Calls :
          (kind'[c] = "publish" /\ pc[c] # "done" /\ pc'[c] = "done")
              => LET failed == Range(to_remove'[c])
                     before == regAtSnapshot'[c]
                 IN /\ failed \cap active_connections' = {}
                    /\ failed \cap DOMAIN subscriptions' = {}
                    /\ \A ws \in DOMAIN before \ failed :
                          /\ ws \in active_connections'
                          /\ ws \in DOMAIN subscriptions'
                          /\ subscriptions'[ws] = before[ws]
                    /\ Cardinality(active_connections') + Len(to_remove'[c])
                          = Cardinality(DOMAIN before)
                    /\ Cardinality(DOMAIN subscriptions') + Len(to_remove'[c])
                          = Cardinality(DOMAIN before)]_vars

\* a completed broadcast had two failed sends
C8_Witness ==
    \E c \in Calls :
        /\ Completed(c)
        /\ Len(to_remove[c]) >= 2
        /\ Range(to_remove[c]) \cap active_connections = {}

\* C9: a broadcast never makes a second send to a stream, and once it has completed
\* every stream of its snapshot whose filters match has had exactly one.
C9_ExactlyOneAttempt ==
    \A c \in Calls : \A ws \in Range(snapshot[c]) :
        /\ Attempts(c, ws) <= 1
        /\ (Completed(c) /\ Matches(message[c], SubscriptionOf(regAtSnapshot[c], ws)))
              => Attempts(c, ws) = 1

\* a completed broadcast made a send that failed and, after it, a send to another stream
C9_Witness ==
    \E c \in Calls : \E i, j \in DOMAIN log :
        /\ Completed(c)
        /\ i < j
        /\ log[i].call = c /\ log[j].call = c
        /\ log[i].ws \in Range(to_remove[c])

\* C10: the sends made on one stream are in the order of the calls (a call's id is its
\* rank among the calls made): a later broadcast never sends on a stream before an
\* earlier one does.
C10_SendsInCallOrder ==
    \A i, j \in DOMAIN log :
        (i < j /\ log[i].ws = log[j].ws) => log[i].call <= log[j].call

\* three broadcasts have each sent on the same stream
C10_Witness ==
    \E b0, b1, b2 \in Calls : \E ws \in Streams :
        /\ b0 < b1 /\ b1 < b2
        /\ SentTo(b0, ws) /\ SentTo(b1, ws) /\ SentTo(b2, ws)

\* C11: a connect or disconnect call suspended at the registry lock (it started while
\* a broadcast was in progress) eventually leaves the lock's queue, also when a send of
\* that broadcast never returns.
C11_LockWaitEnds ==
    \A c \in Calls :
        (kind[c] = "endpoint" /\ pc[c] \in {"wait", "dwait"})
            ~> (pc[c] \notin {"wait", "dwait"})

\* C12: every broadcast that has started (post_notification has called it) eventually
\* completes its whole pass: all matching streams of its snapshot attempted, the failed
\* ones pruned, the lock released and the call returned.
C12_BroadcastCompletes ==
    \A c \in Calls :
        (kind[c] = "publish" /\ pc[c] # "none") ~> Completed(c)

\* websocket_endpoint call c has ended, by returning or by an exception leaving it
DriverEnded(c) == kind[c] = "endpoint" /\ pc[c] \in {"done", "cancelled", "raised"}

\* C13: whatever way a websocket_endpoint call ends (client close, transport error,
\* failed connect, task cancellation), its disconnect has run, so its stream is not in
\* the registry once the call has ended.
C13_EndedDriverDisconnected ==
    \A c \in Calls :
        DriverEnded(c) =>
            /\ arg_ws[c] \notin active_connections
            /\ arg_ws[c] \notin DOMAIN subscriptions

\* C14: a connect call made for a stream that is already in the registry raises no
\* error.
C14_ReconnectRaisesNothing ==
    \A c \in Calls :
        (kind[c] = "connect" /\ registeredAtCall[c]) => pc[c] # "raised"

\* C15: every send a broadcast makes goes to a stream that was in the registry when
\* the broadcast took its snapshot; a stream registered later is never sent that
\* broadcast's envelope.
C15_NoLateDelivery ==
    \A i \in DOMAIN log : log[i].ws \in DOMAIN regAtSnapshot[log[i].call]

\* a websocket_endpoint call made before a broadcast registered its stream only after
\* the broadcast's snapshot; the broadcast sent its envelope to another stream and
\* returned, and the late stream, whose filters match the envelope, was not sent it
C15_Witness ==
    \E b \in Calls, e \in Calls :
        /\ Completed(b) /\ kind[e] = "endpoint" /\ e < b
        /\ \E i \in DOMAIN log : log[i].call = b
        /\ arg_ws[e] \notin DOMAIN regAtSnapshot[b]
        /\ arg_ws[e] \in active_connections
        /\ Matches(message[b], SubscriptionOf(subscriptions, arg_ws[e]))
        /\ ~SentTo(b, arg_ws[e])

\* C16: a broadcast of a post_notification call made after a stream's disconnect has
\* completed makes no send to that stream, and once it has returned it has sent the
\* envelope to every stream of its snapshot whose filters match.
C16_NoSendAfterDisconnect ==
    \A b \in Calls :
        kind[b] = "publish" =>
            /\ \A ws \in goneAtCall[b] : ~SentTo(b, ws)
            /\ Completed(b) =>
                   \A ws \in DOMAIN regAtSnapshot[b] :
                       Matches(message[b], regAtSnapshot[b][ws]) => SentTo(b, ws)

\* a stream was disconnected by its driver, then an envelope matching its filters was
\* published: the broadcast returned having sent to another stream and not to it
C16_Witness ==
    \E b \in Calls, e \in Calls :
        /\ Completed(b) /\ kind[e] = "endpoint"
        /\ arg_ws[e] \in goneAtCall[b]
        /\ Matches(message[b], arg_filters[e])
        /\ \E ws \in Streams \ {arg_ws[e]} : SentTo(b, ws)
        /\ ~SentTo(b, arg_ws[e])

\* C17: every stream in the registry belongs to a websocket_endpoint call whose connect
\* has completed and which has not ended: it is in its receive loop or on its way
\* through disconnect.
C17_RegisteredHasLiveDriver ==
    \A ws \in active_connections \cup DOMAIN subscriptions :
        \E c \in Calls :
            /\ kind[c] = "endpoint" /\ arg_ws[c] = ws
            /\ pc[c] \in {"receive", "dwait"}

\* C18: delivery failures are never surfaced: no exception raised by a send leaves
\* broadcast, so post_notification is never ended by one, however many sends fail.
C18_NoDeliveryErrorSurfaced ==
    \A c \in Calls : kind[c] = "publish" => pc[c] # "raised"

\* post_notification returned its accepted response although every send of its
\* broadcast, two of them, had failed
C18_Witness ==
    \E c \in Calls :
        /\ Completed(c)
        /\ Len(to_remove[c]) >= 2
        /\ \A i \in DOMAIN log : log[i].call = c => log[i].ws \in Range(to_remove[c])

\* C19: a stream leaves the registry only in a step where its own websocket_endpoint
\* call, its receive loop over, runs disconnect, or where a broadcast that made a send
\* to it which failed prunes its to_remove list.
C19_LeavesByDriverOrFailedSend ==
    [][\A ws \in active_connections \ active_connections' :
          \/ \E c \in Calls :
                 /\ kind[c] = "endpoint" /\ arg_ws[c] = ws
                 /\ pc[c] \in {"receive", "dwait"} /\ pc'[c] = "done"
          \/ \E b \in Calls :
                 /\ kind[b] = "publish" /\ pc[b] = "send" /\ pc'[b] = "done"
                 /\ SentTo(b, ws)
                 /\ \E k \in DOMAIN to_remove'[b] : to_remove'[b][k] = ws]_vars

\* of two streams a broadcast sent to, one was pruned because its send failed (its
\* driver still being in its receive loop) and the other was removed by its driver
C19_Witness ==
    \E b \in Calls, e \in Calls, d \in Calls :
        /\ Completed(b)
        /\ kind[e] = "endpoint" /\ pc[e] = "receive"
        /\ arg_ws[e] \in Range(to_remove[b]) /\ arg_ws[e] \notin active_connections
        /\ kind[d] = "endpoint" /\ pc[d] = "done"
        /\ SentTo(b, arg_ws[d]) /\ arg_ws[d] \notin Range(to_remove[b])
        /\ arg_ws[d] \notin active_connections

\* an Optional[str] with the empty string read as absent
AsAbsent(x) == IF x = "" THEN None ELSE x
\* the topic of a payload, its top-level topic "" read as absent: the top-level topic
\* if present, otherwise data.topic if present, otherwise absent
PayloadTopic(p) ==
    IF AsAbsent(p.topic) # None THEN p.topic
    ELSE IF ~p.data.isNone /\ "topic" \in DOMAIN p.data.dict THEN p.data.dict.topic
    ELSE None
\* an absent filter lets every envelope through, a present one only an equal value
Passes(filter, value) == filter = None \/ value = filter

\* C20: when a stream's userId filter or topic filter is "", or the payload's
\* top-level topic is "", a completed broadcast has sent to the stream exactly when it
\* would have with each "" replaced by an absent value: a filter "" lets every
\* envelope through and a top-level topic "" gives way to data.topic.
C20_EmptyStringIsAbsent ==
    \A c \in Calls : \A ws \in DOMAIN regAtSnapshot[c] :
        LET f == regAtSnapshot[c][ws]
            p == arg_payload[c]
        IN (Completed(c) /\ (f.userId = "" \/ f.topic = "" \/ p.topic = ""))
               => (SentTo(c, ws) <=>
                      /\ Passes(AsAbsent(f.userId), p.userId)
                      /\ Passes(AsAbsent(f.topic), PayloadTopic(p)))

\* a stream registered with userId filter "" and topic filter t1 was sent an envelope
\* for user u1 whose top-level topic is "" and whose data.topic is t1
C20_Witness ==
    \E c \in Calls : \E ws \in DOMAIN regAtSnapshot[c] :
        /\ Completed(c)
        /\ regAtSnapshot[c][ws] = Filters("", "t1")
        /\ arg_payload[c] = [userId |-> "u1", topic |-> "", data |-> DataDict([topic |-> "t1"])]
        /\ SentTo(c, ws)

====
